---- MODULE Spec2Model ----
(***************************************************************************)
(* Model of package coerce (coerce.go): Struct, Var, the typed wrappers,   *)
(* unmarshall, unmarshallString, unmarshallFloat, findVal and getBytes.    *)
(*                                                                         *)
(* Texts are sequences of one-character strings.  Integers are kept at     *)
(* full width: a natural number is the set of the positions of its 1 bits, *)
(* an integer is a sign and a magnitude, and a machine word of width w is  *)
(* the set of 1 bits below w (two's complement).                           *)
(***************************************************************************)
EXTENDS Integers, Sequences, FiniteSets, TLC

(***************************************************************************)
(* Bounds of the model.                                                    *)
(***************************************************************************)
\* longest source sequence handed to Struct
MaxLen == 2

\* most formats handed to findVal
MaxFormats == 2

(***************************************************************************)
(* Natural numbers as sets of bit positions.                               *)
(***************************************************************************)
\* bits of a small non-negative number
RECURSIVE FromNat(_)
FromNat(n) ==
    IF n = 0 THEN {}
    ELSE LET rest == {i + 1 : i \in FromNat(n \div 2)}
         IN  IF n % 2 = 1 THEN rest \cup {0} ELSE rest

\* x << k without loss
Shl(S, k) == {i + k : i \in S}

\* x >> k
Shr(S, k) == {i - k : i \in {j \in S : j >= k}}

\* the carry into bit i of x + y
Carry(A, B, i) ==
    \E j \in 0 .. i - 1 :
        /\ j \in A \cap B
        /\ \A k \in j + 1 .. i - 1 : k \in A \cup B

\* x + y
AddNat(A, B) ==
    LET top == IF A \cup B = {} THEN 0
               ELSE 1 + CHOOSE i \in A \cup B : \A j \in A \cup B : j <= i
    IN  {i \in 0 .. top : ((i \in A) # (i \in B)) # Carry(A, B, i)}

\* x < y
LessNat(A, B) ==
    LET D == (A \ B) \cup (B \ A)
    IN  /\ D # {}
        /\ (CHOOSE i \in D : \A j \in D : j <= i) \in B

\* x * 10
Mul10(S) == AddNat(Shl(S, 3), Shl(S, 1))

\* the small number a bit set stands for
RECURSIVE ToNat(_)
ToNat(S) ==
    IF S = {} THEN 0
    ELSE LET i == CHOOSE j \in S : TRUE
         IN  2 ^ i + ToNat(S \ {i})

(***************************************************************************)
(* Integers (sign and magnitude) and machine words.                        *)
(***************************************************************************)
MkInt(neg, mag) == [neg |-> neg /\ mag # {}, mag |-> mag]

IntZero == MkInt(FALSE, {})

\* a small integer literal
IntOf(n) == IF n < 0 THEN MkInt(TRUE, FromNat(-n)) ELSE MkInt(FALSE, FromNat(n))

\* the w-bit two's complement pattern of x (conversion to a w-bit type)
Word(x, w) ==
    IF ~x.neg THEN x.mag \cap (0 .. w - 1)
    ELSE AddNat((0 .. w - 1) \ x.mag, {0}) \cap (0 .. w - 1)

\* the value of a w-bit pattern read as a signed integer
Signed(p, w) ==
    IF (w - 1) \in p
    THEN MkInt(TRUE, AddNat((0 .. w - 1) \ p, {0}))
    ELSE MkInt(FALSE, p)

\* the value of a pattern read as an unsigned integer
Unsigned(p) == MkInt(FALSE, p)

\* reflect.Value.SetInt on a destination of w bits: int8(x), int16(x), ...
SetInt(x, w) == Signed(Word(x, w), w)

\* reflect.Value.SetUint on a destination of w bits
SetUint(x, w) == Unsigned(Word(x, w))

\* x fits a signed w-bit type
FitsSigned(x, w) ==
    IF x.neg THEN ~LessNat({w - 1}, x.mag) ELSE LessNat(x.mag, {w - 1})

\* x fits an unsigned w-bit type
FitsUnsigned(x, w) == ~x.neg /\ LessNat(x.mag, {w})

(***************************************************************************)
(* Texts.                                                                  *)
(***************************************************************************)
Digits == <<"0", "1", "2", "3", "4", "5", "6", "7", "8", "9">>

IsDigit(c) == \E d \in 1 .. 10 : Digits[d] = c

DigitVal(c) == (CHOOSE d \in 1 .. 10 : Digits[d] = c) - 1

\* s[:len(s)-1]
Front(s) == SubSeq(s, 1, Len(s) - 1)


\* the decimal numeral of a small natural number
RECURSIVE Decimal(_)
Decimal(n) ==
    IF n < 10 THEN <<Digits[n + 1]>>
    ELSE Decimal(n \div 10) \o <<Digits[(n % 10) + 1]>>

LowerCase == <<"a", "b", "c", "d", "e", "f", "g", "h", "i", "j", "k", "l", "m",
               "n", "o", "p", "q", "r", "s", "t", "u", "v", "w", "x", "y", "z">>

UpperCase == <<"A", "B", "C", "D", "E", "F", "G", "H", "I", "J", "K", "L", "M",
               "N", "O", "P", "Q", "R", "S", "T", "U", "V", "W", "X", "Y", "Z">>

\* strings.ToUpper on one character
ToUpper(c) ==
    IF \E i \in 1 .. 26 : LowerCase[i] = c
    THEN UpperCase[CHOOSE i \in 1 .. 26 : LowerCase[i] = c]
    ELSE c

\* strings.ToLower on one character
ToLower(c) ==
    IF \E i \in 1 .. 26 : UpperCase[i] = c
    THEN LowerCase[CHOOSE i \in 1 .. 26 : UpperCase[i] = c]
    ELSE c

(***************************************************************************)
(* Errors.  A strconv error is a *NumError (Func, Num, Err); an error made *)
(* by fmt.Errorf carries its text in num.  Error renders err.Error().      *)
(***************************************************************************)
NumError(fn, s, kind) == [fn |-> fn, num |-> s, kind |-> kind]

Errorf(kind, text) == [fn |-> "fmt", num |-> text, kind |-> kind]

NoError == [fn |-> "", num |-> <<>>, kind |-> "nil"]

Error(e) ==
    IF e.kind = "nil" THEN <<>>
    ELSE IF e.fn = "fmt" THEN e.num
    ELSE <<"strconv.", e.fn, ": parsing ", "\"">> \o e.num
         \o <<"\"", ": ", IF e.kind = "range" THEN "value out of range"
                          ELSE "invalid syntax">>

(***************************************************************************)
(* strconv, base 10, over the alphabet of the model: digits, "-", ".",     *)
(* the unit letters and letters that are no unit.                          *)
(***************************************************************************)
\* the number a digit string stands for
RECURSIVE DecValue(_)
DecValue(s) ==
    IF s = <<>> THEN {}
    ELSE LET r == DecValue(Front(s))
             d == FromNat(DigitVal(s[Len(s)]))
         IN  IF r = {} THEN d ELSE AddNat(Mul10(r), d)

AllDigits(s) == \A i \in 1 .. Len(s) : IsDigit(s[i])

\* strconv.ParseUint(s, 10, bits)
ParseUint(s, bits) ==
    IF s = <<>> \/ ~AllDigits(s)
    THEN [ok |-> FALSE, val |-> IntZero, err |-> NumError("ParseUint", s, "syntax")]
    ELSE LET u == MkInt(FALSE, DecValue(s))
         IN  IF FitsUnsigned(u, bits)
             THEN [ok |-> TRUE, val |-> u, err |-> NoError]
             ELSE [ok |-> FALSE, val |-> IntZero,
                   err |-> NumError("ParseUint", s, "range")]

\* strconv.ParseInt(s, 10, bits)
ParseInt(s, bits) ==
    LET neg  == s # <<>> /\ s[1] = "-"
        body == IF neg THEN Tail(s) ELSE s
    IN  IF body = <<>> \/ ~AllDigits(body)
        THEN [ok |-> FALSE, val |-> IntZero, err |-> NumError("ParseInt", s, "syntax")]
        ELSE LET n == MkInt(neg, DecValue(body))
             IN  IF FitsSigned(n, bits)
                 THEN [ok |-> TRUE, val |-> n, err |-> NoError]
                 ELSE [ok |-> FALSE, val |-> IntZero,
                       err |-> NumError("ParseInt", s, "range")]

\* position of the first "." of s, or 0
DotAt(s) ==
    IF \E i \in 1 .. Len(s) : s[i] = "."
    THEN CHOOSE i \in 1 .. Len(s) : s[i] = "." /\ \A j \in 1 .. i - 1 : s[j] # "."
    ELSE 0

\* strconv.ParseFloat(s, 64).  A float64 is kept as its exact number of
\* halves; the texts of the model have at most one fractional digit, which
\* is 0 or 5, and few enough digits for float64 to hold them exactly.
ParseFloat(s) ==
    LET neg  == s # <<>> /\ s[1] = "-"
        body == IF neg THEN Tail(s) ELSE s
        dot  == DotAt(body)
        ip   == IF dot = 0 THEN body ELSE SubSeq(body, 1, dot - 1)
        fp   == IF dot = 0 THEN <<>> ELSE SubSeq(body, dot + 1, Len(body))
    IN  IF ~AllDigits(ip) \/ ~AllDigits(fp) \/ (ip = <<>> /\ fp = <<>>)
        THEN [ok |-> FALSE, val |-> IntZero, err |-> NumError("ParseFloat", s, "syntax")]
        ELSE [ok |-> TRUE,
              val |-> MkInt(neg, AddNat(Shl(DecValue(ip), 1),
                                        IF fp # <<>> /\ fp[1] = "5" THEN {0} ELSE {})),
              err |-> NoError]

(***************************************************************************)
(* getBytes                                                                *)
(***************************************************************************)
\* the shift of each multiplier: b = 1, k = b << 10, ..., t = g << 10
UnitShift(c) ==
    CASE c = "B" -> 0
      [] c = "K" -> 10
      [] c = "M" -> 20
      [] c = "G" -> 30
      [] c = "T" -> 40
      [] OTHER -> -1

\* ival * mult in int64 arithmetic, mult = 1 << k
MulInt64(ival, k) == Signed(Shl(Word(ival, 64), k) \cap (0 .. 63), 64)

\* int64(fval * float64(mult)), fval in halves: truncation toward zero; a
\* product outside int64 converts to the minimum int64 (amd64)
FloatMulToInt64(h, k) ==
    LET x == MkInt(h.neg, IF k = 0 THEN Shr(h.mag, 1) ELSE Shl(h.mag, k - 1))
    IN  IF FitsSigned(x, 64) THEN x ELSE MkInt(TRUE, {63})

\* getBytes(s, err): st is "ok", "err", or "panic" (index out of range)
getBytes(s, err) ==
    IF Len(s) = 0
    THEN [st |-> "panic", val |-> IntZero, err |-> NoError]
    ELSE LET k == UnitShift(ToUpper(s[Len(s)]))
             i == ParseInt(Front(s), 64)
             f == ParseFloat(Front(s))
         IN  IF k = -1 THEN [st |-> "err", val |-> IntZero, err |-> err]
             ELSE IF i.ok
                  THEN [st |-> "ok", val |-> MulInt64(i.val, k), err |-> NoError]
                  ELSE IF f.ok
                       THEN [st |-> "ok", val |-> FloatMulToInt64(f.val, k),
                             err |-> NoError]
                       ELSE [st |-> "err", val |-> IntZero, err |-> f.err]

(***************************************************************************)
(* Types and values.  A type is its Go name.  A value carries its dynamic  *)
(* type t and, by kind, an integer n (integers, booleans as 0/1, floats as *)
(* a number of halves), a text s, or a list l of values.  "nil" is the nil *)
(* interface value.                                                        *)
(***************************************************************************)
Kind(t) ==
    CASE t \in {"int", "int8", "int16", "int32", "int64"} -> "Int"
      [] t \in {"uint", "uint8", "uint16", "uint32", "uint64"} -> "Uint"
      [] t = "float64" -> "Float"
      [] t = "string" -> "String"
      [] t = "bool" -> "Bool"
      [] t \in {"[]int", "[]string", "[]interface {}", "[][]int", "[][]string"}
            -> "Slice"
      [] t = "interface {}" -> "Interface"
      [] OTHER -> "Invalid"

\* reflect.Type.Bits; int and uint are 64 bits wide (amd64)
Bits(t) ==
    CASE t \in {"int8", "uint8"} -> 8
      [] t \in {"int16", "uint16"} -> 16
      [] t \in {"int32", "uint32"} -> 32
      [] OTHER -> 64

\* reflect.Type.Elem of a slice type
Elem(t) ==
    CASE t = "[]int" -> "int"
      [] t = "[]string" -> "string"
      [] t = "[]interface {}" -> "interface {}"
      [] t = "[][]int" -> "[]int"
      [] t = "[][]string" -> "[]string"
      [] OTHER -> "invalid"

Val(t, n, s, l) == [t |-> t, n |-> n, s |-> s, l |-> l]

NilV == Val("nil", IntZero, <<>>, <<>>)
StrV(s) == Val("string", IntZero, s, <<>>)
IntV(t, x) == Val(t, x, <<>>, <<>>)
FloatV(h) == Val("float64", h, <<>>, <<>>)
BoolV(b) == Val("bool", IF b THEN IntOf(1) ELSE IntZero, <<>>, <<>>)
SliceV(t, l) == Val(t, IntZero, <<>>, l)

\* reflect.Zero(t)
Zero(t) == Val(t, IntZero, <<>>, <<>>)

\* reflect.MakeSlice(t, n, n)
RECURSIVE MakeSlice(_, _)
MakeSlice(t, n) ==
    IF n = 0 THEN SliceV(t, <<>>)
    ELSE SliceV(t, Append(MakeSlice(t, n - 1).l, Zero(Elem(t))))

\* reflect.ValueOf(v): the value with the type reflection sees for it
ValueOf(v) == [v |-> v, static |-> v.t]

\* vv.Index(j): an element of a []interface{} keeps the static type
\* interface {} (it is not unwrapped with Elem)
Index(vv, j) == [v |-> vv.v.l[j], static |-> Elem(vv.v.t)]

\* Type.AssignableTo among the types of the model: identical types
AssignableTo(from, to) == from = to

\* fmt.Sprintf("%v", x)
RECURSIVE Sprint(_)
Sprint(v) ==
    LET k == Kind(v.t)
    IN  CASE v.t = "nil" -> <<"<nil>">>
          [] k = "String" -> v.s
          [] k \in {"Int", "Uint"} ->
                (IF v.n.neg THEN <<"-">> ELSE <<>>) \o Decimal(ToNat(v.n.mag))
          [] k = "Bool" -> IF v.n = IntZero THEN <<"false">> ELSE <<"true">>
          [] k = "Float" ->
                (IF v.n.neg THEN <<"-">> ELSE <<>>)
                \o Decimal(ToNat(Shr(v.n.mag, 1)))
                \o (IF 0 \in v.n.mag THEN <<".", "5">> ELSE <<>>)
          [] OTHER ->
                LET Join[i \in 0 .. Len(v.l)] ==
                        IF i = 0 THEN <<>>
                        ELSE Join[i - 1] \o (IF i > 1 THEN <<" ">> ELSE <<>>)
                             \o Sprint(v.l[i])
                IN  <<"[">> \o Join[Len(v.l)] \o <<"]">>

(***************************************************************************)
(* unmarshallString, unmarshallFloat, unmarshall.  Each returns st ("ok",  *)
(* "err" or "panic"), the destination's value afterwards and the error.    *)
(***************************************************************************)
Done(val) == [st |-> "ok", val |-> val, err |-> NoError]

Fail(vto, err) == [st |-> "err", val |-> vto, err |-> err]

Panic(vto) == [st |-> "panic", val |-> vto, err |-> NoError]

\* unmarshallString(vto, tto, s); no destination of the model is a
\* time.Duration, so the first switch never matches
unmarshallString(vto, tto, s) ==
    CASE Kind(tto) = "Int" ->
            LET i == ParseInt(s, Bits(tto))
                g == getBytes(s, i.err)
            IN  IF i.ok THEN Done(IntV(tto, SetInt(i.val, Bits(tto))))
                ELSE IF g.st = "panic" THEN Panic(vto)
                ELSE IF g.st = "err" THEN Fail(vto, g.err)
                ELSE Done(IntV(tto, SetInt(g.val, Bits(tto))))
      [] Kind(tto) = "Uint" ->
            LET u == ParseUint(s, Bits(tto))
                g == getBytes(s, u.err)
            IN  IF u.ok THEN Done(IntV(tto, SetUint(u.val, Bits(tto))))
                ELSE IF g.st = "panic" THEN Panic(vto)
                ELSE IF g.st = "err" THEN Fail(vto, g.err)
                ELSE Done(IntV(tto, SetUint(Unsigned(Word(g.val, 64)), Bits(tto))))
      [] Kind(tto) = "Float" ->
            LET f == ParseFloat(s)
            IN  IF f.ok THEN Done(FloatV(f.val)) ELSE Fail(vto, f.err)
      [] OTHER ->
            Fail(vto, Errorf("unsupported",
                 <<"don't know how to unmarshall string to ", tto, "\n">>))

\* int64(f), f in halves: truncation toward zero
FloatToInt64(h) == FloatMulToInt64(h, 0)

\* unmarshallFloat(vto, tto, f); uint64(f) of a negative f as on amd64
unmarshallFloat(vto, tto, f) ==
    CASE Kind(tto) = "Int" -> Done(IntV(tto, SetInt(FloatToInt64(f), Bits(tto))))
      [] Kind(tto) = "Uint" ->
            Done(IntV(tto, SetUint(Unsigned(Word(FloatToInt64(f), 64)), Bits(tto))))
      [] OTHER ->
            Fail(vto, Errorf("unsupported",
                 <<"don't know how to unmarshall float to ", tto, "\n">>))

\* unmarshall that converts a slice source element by element instead of
\* rejecting it
RECURSIVE unmarshall_deep(_, _)
unmarshall_deep(vto, vfrom) ==
    LET tto == vto.t
    IN  IF vfrom.static = "nil" THEN Panic(vto)
        ELSE IF AssignableTo(vfrom.static, tto) THEN Done(vfrom.v)
        ELSE IF Kind(tto) = "String" THEN Done(StrV(Sprint(vfrom.v)))
        ELSE CASE Kind(vfrom.static) = "String" ->
                    unmarshallString(vto, tto, vfrom.v.s)
               [] Kind(vfrom.static) = "Float" ->
                    unmarshallFloat(vto, tto, vfrom.v.n)
               [] Kind(vfrom.static) = "Slice" /\ Kind(tto) = "Slice" ->
                    Done(SliceV(tto,
                         [j \in 1 .. Len(vfrom.v.l) |->
                            unmarshall_deep(Zero(Elem(tto)), Index(vfrom, j)).val]))
               [] OTHER ->
                    Fail(vto, Errorf("unsupported",
                         <<"Don't know how to unmarshall ", vfrom.static,
                           " to ", tto, "\n">>))

\* unmarshall(vto, vfrom); vfrom.Type() panics on the zero reflect.Value,
\* which is what reflect.ValueOf(nil) returns
unmarshall(vto, vfrom) ==
    LET tto == vto.t
    IN  IF vfrom.static = "nil" THEN Panic(vto)
        ELSE IF AssignableTo(vfrom.static, tto) THEN Done(vfrom.v)
        ELSE IF Kind(tto) = "String" THEN Done(StrV(Sprint(vfrom.v)))
        ELSE CASE Kind(vfrom.static) = "String" ->
                    unmarshallString(vto, tto, vfrom.v.s)
               [] Kind(vfrom.static) = "Float" ->
                    unmarshallFloat(vto, tto, vfrom.v.n)
               [] OTHER ->
                    Fail(vto, Errorf("unsupported",
                         <<"Don't know how to unmarshall ", vfrom.static,
                           " to ", tto, "\n">>))

\* Var(pto, from): the pointee of pto is vto
Var(vto, from) == unmarshall(vto, ValueOf(from))

\* Int, Int64, Uint, Uint64, Float64: Var into a zero local of the declared
\* result type; Uint64 declares its result as int64
\* (Int clashes with the set of integers)
IntWrapper(from) == Var(Zero("int"), from)
Int64(from) == Var(Zero("int64"), from)
Uint(from) == Var(Zero("uint"), from)
Uint64(from) == Var(Zero("int64"), from)
Float64(from) == Var(Zero("float64"), from)

\* String(from): the error of Var is dropped
String(from) ==
    LET r == Var(Zero("string"), from)
    IN  [st |-> IF r.st = "panic" THEN "panic" ELSE "ok", val |-> r.val,
         err |-> NoError]

(***************************************************************************)
(* findVal                                                                 *)
(***************************************************************************)
\* fmt.Sprintf(pat, name): pat is a text in which the verb %s is one
\* element; a verb without operand and an operand without verb render as
\* fmt renders them
RECURSIVE Render(_, _, _)
Render(pat, name, used) ==
    IF pat = <<>>
    THEN IF used THEN <<>> ELSE <<"%!(EXTRA string=">> \o name \o <<")">>
    ELSE IF Head(pat) = "%s"
         THEN (IF used THEN <<"%!s(MISSING)">> ELSE name)
              \o Render(Tail(pat), name, TRUE)
         ELSE <<Head(pat)>> \o Render(Tail(pat), name, used)

Sprintf(pat, name) == Render(pat, name, FALSE)

\* the loop of findVal from the i-th format on; found is the value of ok
RECURSIVE findLoop(_, _, _, _, _)
findLoop(name, from, formats, i, tried) ==
    IF i > Len(formats)
    THEN [ok |-> FALSE, result |-> NilV, tried |-> tried]
    ELSE LET key == Sprintf(formats[i], name)
         IN  IF key \in DOMAIN from
             THEN [ok |-> TRUE, result |-> from[key], tried |-> tried]
             ELSE findLoop(name, from, formats, i + 1, tried \o key \o <<"|">>)

\* findVal without the break of its loop: the last format that hits wins
findVal_lastHit(name, from, formats) ==
    LET fs   == IF Len(formats) = 0 THEN <<(<<"%s">>)>> ELSE formats
        hits == {i \in 1 .. Len(fs) : Sprintf(fs[i], name) \in DOMAIN from}
        last == CHOOSE i \in hits : \A j \in hits : j <= i
    IN  IF hits # {}
        THEN [st |-> "ok", val |-> from[Sprintf(fs[last], name)], err |-> NoError]
        ELSE [st |-> "err", val |-> NilV, err |-> Errorf("notfound", <<>>)]

\* findVal(name, from, formats); tried[:len(tried)-2] panics when tried is
\* shorter than two characters
findVal(name, from, formats) ==
    LET fs == IF Len(formats) = 0 THEN <<(<<"%s">>)>> ELSE formats
        r  == findLoop(name, from, fs, 1, <<>>)
    IN  IF r.ok THEN [st |-> "ok", val |-> r.result, err |-> NoError]
        ELSE IF Len(r.tried) < 2 THEN [st |-> "panic", val |-> NilV, err |-> NoError]
        ELSE [st |-> "err", val |-> NilV,
              err |-> Errorf("notfound",
                        <<"Coerce: [">> \o SubSeq(r.tried, 1, Len(r.tried) - 2)
                        \o <<"] not found in map">>)]

(***************************************************************************)
(* Struct.  A record type is a sequence of fields [name, type]; the record *)
(* is the sequence of its fields' values.  The caller passes a pointer to  *)
(* a struct, so the check of the kind of 'to' passes.                      *)
(***************************************************************************)
\* vf.CanSet(): exported fields of an addressable struct
CanSet(name) == \E i \in 1 .. 26 : UpperCase[i] = name[1]

\* the loop over the elements of a source slice, from element j on: each
\* element is unmarshalled into its slot, errors are appended to errstr
RECURSIVE elemLoop(_, _, _, _)
elemNext(vf, vv, j, errstr, r) ==
    IF r.st = "panic" THEN [st |-> "panic", val |-> vf, errstr |-> errstr]
    ELSE elemLoop([vf EXCEPT !.l[j] = r.val], vv, j + 1,
                  IF r.st = "err" THEN errstr \o Error(r.err) \o <<"\n">>
                  ELSE errstr)

elemLoop(vf, vv, j, errstr) ==
    IF j > Len(vv.v.l) THEN [st |-> "ok", val |-> vf, errstr |-> errstr]
    ELSE elemNext(vf, vv, j, errstr, unmarshall(vf.l[j], Index(vv, j)))

\* the outcome r of unmarshall, taken into the field and into errstr
stored(vf, errstr, r) ==
    CASE r.st = "panic" -> [st |-> "panic", val |-> vf, errstr |-> errstr]
      [] r.st = "err" -> [st |-> "ok", val |-> r.val,
                          errstr |-> errstr \o Error(r.err) \o <<"\n">>]
      [] OTHER -> [st |-> "ok", val |-> r.val, errstr |-> errstr]

\* one iteration of the loop over the fields, from the result of findVal
\* on: field f, its value vf, the value v found in the map
structFound(f, vf, v, errstr) ==
    IF v = NilV
    THEN [st |-> "ok", val |-> Zero(f.type), errstr |-> errstr]
    \* reflect.TypeOf(vv) is the type of the reflect.Value itself
    ELSE IF AssignableTo("reflect.Value", f.type)
    THEN [st |-> "ok", val |-> v, errstr |-> errstr]
    ELSE IF Kind(v.t) # "Slice"
    THEN stored(vf, errstr, unmarshall(vf, ValueOf(v)))
    ELSE IF Kind(f.type) = "Slice"
    THEN elemLoop(MakeSlice(f.type, Len(v.l)), ValueOf(v), 1, errstr)
    ELSE IF Len(v.l) = 1
    THEN stored(vf, errstr, unmarshall(vf, Index(ValueOf(v), 1)))
    ELSE [st |-> "ok", val |-> vf,
          errstr |-> errstr \o <<"Coerce: can't coerce ">> \o f.name
                     \o <<" from multi-value slice", "\n">>]

\* one iteration of the loop over the fields, from the check of CanSet to
\* the result found of findVal
structLookup(f, vf, found, errstr) ==
    IF ~(CanSet(f.name) \/ f.name[1] = ToLower(f.name[1]))
    THEN [st |-> "ok", val |-> vf,
          errstr |-> errstr \o <<"Coerce: !CanSet() field ">> \o f.name \o <<"\n">>]
    ELSE IF found.st = "panic"
    THEN [st |-> "panic", val |-> vf, errstr |-> errstr]
    ELSE IF found.st = "err"
    THEN [st |-> "ok", val |-> vf, errstr |-> errstr \o Error(found.err) \o <<"\n">>]
    ELSE structFound(f, vf, found.val, errstr)

\* one iteration of the loop over the fields: field f, its value vf
structField(f, vf, from, formats, errstr) ==
    structLookup(f, vf, findVal(f.name, from, formats), errstr)

\* the loop over the fields from field i on; r is what the iteration for
\* field i did
RECURSIVE structLoop(_, _, _, _, _, _)
structNext(fields, to, from, formats, i, r) ==
    IF r.st = "panic"
    THEN [st |-> "panic", to |-> [to EXCEPT ![i] = r.val], errstr |-> r.errstr,
          at |-> i]
    ELSE structLoop(fields, [to EXCEPT ![i] = r.val], from, formats, i + 1, r.errstr)

structLoop(fields, to, from, formats, i, errstr) ==
    IF i > Len(fields) THEN [st |-> "ok", to |-> to, errstr |-> errstr, at |-> i]
    ELSE structNext(fields, to, from, formats, i,
                    structField(fields[i], to[i], from, formats, errstr))

\* the error Struct returns for the outcome r of its loop
structReturn(r) ==
    [st  |-> IF r.st = "panic" THEN "panic"
             ELSE IF r.errstr # <<>> THEN "error" ELSE "nil",
     to  |-> r.to,
     err |-> IF r.st # "panic" /\ r.errstr # <<>> THEN Front(r.errstr) ELSE <<>>,
     at  |-> r.at]

\* Struct(to, from, formats...): the record afterwards, the returned error
\* (st "nil", or "error" with errstr less its last newline, or "panic") and
\* the field the call stopped at
Struct(fields, to, from, formats) ==
    structReturn(structLoop(fields, to, from, formats, 1, <<>>))

(***************************************************************************)
(* The inputs of the calls.                                                *)
(***************************************************************************)
SeqsUpTo(S, n) == UNION {[1 .. k -> S] : k \in 0 .. n}

NumText(n) == IF n < 0 THEN <<"-">> \o Decimal(-n) ELSE Decimal(n)

\* the integers n of the texts "<n>" and "<n>u"
Numbers == {0, 1, 3, 127, 128, 255, 256, -1, -128, -129}

UnitLetters == {"B", "K", "M", "G", "T", "b", "k", "m", "g", "t"}

UnitTexts == {NumText(n) \o <<u>> : n \in Numbers, u \in UnitLetters}

MaxInt64Text ==
    <<"9", "2", "2", "3", "3", "7", "2", "0", "3", "6",
      "8", "5", "4", "7", "7", "5", "8", "0", "7">>

MaxUint64Text ==
    <<"1", "8", "4", "4", "6", "7", "4", "4", "0", "7",
      "3", "7", "0", "9", "5", "5", "1", "6", "1", "5">>

Texts ==
    UnitTexts \cup {NumText(n) : n \in Numbers}
    \cup { <<>>, <<"K">>, <<"-">>, <<"x">>, <<"5", "x">>, <<"1", "2">>,
           <<"2", ".", "5">>, <<"0", ".", "5", "k">>, <<"-", "0", ".", "5", "k">>,
           <<"1", ".", "5", "B">>, <<"x", "K">>,
           MaxInt64Text, Front(MaxInt64Text) \o <<"8">>, MaxUint64Text,
           <<"8", "3", "8", "8", "6", "0", "8", "T">> }

\* the dynamic values handed to Var and to the wrappers
Values ==
    {StrV(s) : s \in Texts}
    \cup { NilV, IntV("int", IntOf(7)), IntV("int", IntOf(-7)), BoolV(TRUE),
           FloatV(IntOf(5)), FloatV(IntOf(600)),
           SliceV("[]string", <<StrV(<<"5">>)>>),
           SliceV("[]int", <<IntV("int", IntOf(7))>>) }

\* the destination types of Var
DestTypes ==
    {"int8", "int16", "int32", "int64", "int", "uint8", "uint16", "uint32",
     "uint64", "uint", "float64", "string", "bool", "[]int"}

\* the value a destination holds before the call
RECURSIVE Prior(_)
Prior(t) ==
    CASE Kind(t) \in {"Int", "Uint", "Float", "Bool"} -> IntV(t, IntOf(1))
      [] Kind(t) = "String" -> StrV(<<"p">>)
      [] OTHER -> SliceV(t, <<Prior(Elem(t))>>)

\* the formats of the model
Formats == {<<"%s">>, <<"-", "-", "%s">>, <<"-", "%s">>}

FieldNames == {<<"f", "o", "o">>, <<"N", "a", "m", "e">>}

\* the source maps handed to findVal for a name: under each key a format
\* renders there is no entry, a text naming the key, or nil
FindMaps(name) ==
    LET keys == {Sprintf(p, name) : p \in Formats}
    IN  UNION {[K -> {"text", "nil"}] : K \in SUBSET keys}

FindMap(name, m) ==
    [k \in DOMAIN m |-> IF m[k] = "nil" THEN NilV ELSE StrV(k)]

\* the values under the keys of the maps handed to Struct
ElemTexts == {<<"5">>, <<"0", ".", "5", "k">>, <<>>, <<"x">>}

ScalarSources ==
    {StrV(s) : s \in {<<"5">>, <<>>, <<"x">>, <<"0", ".", "5", "k">>, <<"-", "1", "K">>}}
    \cup {NilV, IntV("int", IntOf(7)), FloatV(IntOf(5)), BoolV(TRUE)}

SliceSources ==
    {SliceV("[]string", l) : l \in SeqsUpTo({StrV(s) : s \in ElemTexts}, MaxLen)}
    \cup {SliceV("[]interface {}", l) :
            l \in SeqsUpTo({StrV(<<"5">>), StrV(<<"x">>)}, MaxLen)}
    \cup {SliceV("[]int", l) : l \in SeqsUpTo({IntV("int", IntOf(7))}, MaxLen)}
    \cup {SliceV("[][]string", l) :
            l \in SeqsUpTo({SliceV("[]string", <<>>),
                            SliceV("[]string", <<StrV(<<"5">>), StrV(<<"1", "2">>)>>)},
                           MaxLen)}
    \cup {SliceV("[][]int", l) :
            l \in SeqsUpTo({SliceV("[]int", <<IntV("int", IntOf(7))>>)}, MaxLen)}

\* "absent": the map has no entry for the field
Absent == Val("absent", IntZero, <<>>, <<>>)

RichSources == ScalarSources \cup SliceSources \cup {Absent}

PlainSources == {Absent, StrV(<<"5">>), StrV(<<>>), StrV(<<"x">>)}

FieldTypes == {"int8", "uint64", "string", "[]int", "[]string", "[][]int"}

\* the formats handed to Struct and the format the keys of the map follow
FormatChoices ==
    { [formats |-> <<>>, key |-> <<"%s">>],
      [formats |-> << <<"-", "-", "%s">>, <<"-", "%s">> >>, key |-> <<"-", "%s">>],
      [formats |-> << <<"-", "-", "%s">>, <<"-", "%s">> >>, key |-> <<"-", "-", "%s">>] }

\* the two-field record types
Records ==
    { << [name |-> <<"f", "o", "o">>, type |-> t1],
         [name |-> <<"N", "a", "m", "e">>, type |-> t2] >> :
      t1 \in FieldTypes, t2 \in FieldTypes }

\* the map with v1 and v2 under the keys of the two fields
SourceMap(fs, key, v1, v2) ==
    LET k1 == Sprintf(key, fs[1].name)
        k2 == Sprintf(key, fs[2].name)
        K  == (IF v1 = Absent THEN {} ELSE {k1}) \cup (IF v2 = Absent THEN {} ELSE {k2})
    IN  [k \in K |-> IF k = k1 THEN v1 ELSE v2]

(***************************************************************************)
(* The state: the call (op and its arguments), the record or variable the  *)
(* call writes to, and what the call returned.                             *)
(***************************************************************************)
VARIABLES pc, op, fields, to, prior, from, formats, name, val, ret

vars == <<pc, op, fields, to, prior, from, formats, name, val, ret>>

NoRet == [st |-> "none", val |-> NilV, err |-> NoError, msg |-> <<>>, at |-> 0]

NoMap == [k \in {} |-> NilV]

InitStruct ==
    /\ op = "Struct"
    /\ fields \in Records
    /\ to = [i \in 1 .. Len(fields) |-> Prior(fields[i].type)]
    /\ \E c \in FormatChoices :
         /\ formats = c.formats
         /\ \E v1 \in RichSources, v2 \in RichSources :
              /\ v1 \in PlainSources \/ v2 \in PlainSources
              /\ from = SourceMap(fields, c.key, v1, v2)
    /\ name = <<>>
    /\ val = NilV

InitVar ==
    /\ op = "Var"
    /\ \E t \in DestTypes :
         /\ fields = <<[name |-> <<>>, type |-> t]>>
         /\ to = <<Prior(t)>>
    /\ val \in Values
    /\ from = NoMap /\ formats = <<>> /\ name = <<>>

InitWrapper ==
    /\ op \in {"Int", "Int64", "Uint", "Uint64", "Float64", "String"}
    /\ val \in Values
    /\ fields = <<>> /\ to = <<>>
    /\ from = NoMap /\ formats = <<>> /\ name = <<>>

InitFindVal ==
    /\ op = "findVal"
    /\ name \in FieldNames
    /\ formats \in SeqsUpTo(Formats, MaxFormats)
    /\ \E m \in FindMaps(name) : from = FindMap(name, m)
    /\ fields = <<>> /\ to = <<>> /\ val = NilV

Init ==
    /\ pc = "call"
    /\ ret = NoRet
    /\ InitStruct \/ InitVar \/ InitWrapper \/ InitFindVal
    /\ prior = to

Return(r) ==
    /\ ret' = [st |-> r.st, val |-> r.val, err |-> r.err, msg |-> Error(r.err),
               at |-> 0]
    /\ pc' = "done"

StructReturns(r) ==
    /\ to' = r.to
    /\ ret' = [st |-> r.st, val |-> NilV, err |-> NoError, msg |-> r.err, at |-> r.at]
    /\ pc' = "done"

CallStruct ==
    /\ pc = "call" /\ op = "Struct"
    /\ StructReturns(Struct(fields, to, from, formats))
    /\ UNCHANGED <<op, fields, prior, from, formats, name, val>>

VarReturns(r) ==
    /\ to' = <<r.val>>
    /\ Return(r)

CallVar ==
    /\ pc = "call" /\ op = "Var"
    /\ VarReturns(Var(to[1], val))
    /\ UNCHANGED <<op, fields, prior, from, formats, name, val>>

CallInt ==
    /\ pc = "call" /\ op = "Int"
    /\ Return(IntWrapper(val))
    /\ UNCHANGED <<op, fields, to, prior, from, formats, name, val>>

CallInt64 ==
    /\ pc = "call" /\ op = "Int64"
    /\ Return(Int64(val))
    /\ UNCHANGED <<op, fields, to, prior, from, formats, name, val>>

CallUint ==
    /\ pc = "call" /\ op = "Uint"
    /\ Return(Uint(val))
    /\ UNCHANGED <<op, fields, to, prior, from, formats, name, val>>

CallUint64 ==
    /\ pc = "call" /\ op = "Uint64"
    /\ Return(Uint64(val))
    /\ UNCHANGED <<op, fields, to, prior, from, formats, name, val>>

CallFloat64 ==
    /\ pc = "call" /\ op = "Float64"
    /\ Return(Float64(val))
    /\ UNCHANGED <<op, fields, to, prior, from, formats, name, val>>

CallString ==
    /\ pc = "call" /\ op = "String"
    /\ Return(String(val))
    /\ UNCHANGED <<op, fields, to, prior, from, formats, name, val>>

CallFindVal ==
    /\ pc = "call" /\ op = "findVal"
    /\ Return(findVal(name, from, formats))
    /\ UNCHANGED <<op, fields, to, prior, from, formats, name, val>>

Next ==
    \/ CallStruct
    \/ CallVar
    \/ CallInt
    \/ CallInt64
    \/ CallUint
    \/ CallUint64
    \/ CallFloat64
    \/ CallString
    \/ CallFindVal

Spec == Init /\ [][Next]_vars

(***************************************************************************)
(* Properties.                                                             *)
(***************************************************************************)
\* m has k as a contiguous part
Contains(m, k) ==
    \E p \in 0 .. Len(m) - Len(k) : SubSeq(m, p + 1, p + Len(k)) = k

\* m has the texts of ks as parts that follow one another
ContainsInOrder(m, ks) ==
    \E f \in [1 .. Len(ks) -> 0 .. Len(m)] :
        /\ \A i \in 1 .. Len(ks) :
              /\ f[i] + Len(ks[i]) <= Len(m)
              /\ SubSeq(m, f[i] + 1, f[i] + Len(ks[i])) = ks[i]
        /\ \A i \in 1 .. Len(ks) - 1 : f[i] + Len(ks[i]) <= f[i + 1]

\* the lines of a text
Lines(m) ==
    { l \in (1 .. Len(m)) \X (1 .. Len(m)) :
        /\ l[1] <= l[2]
        /\ \A i \in l[1] .. l[2] : m[i] # "\n"
        /\ l[1] = 1 \/ m[l[1] - 1] = "\n"
        /\ l[2] = Len(m) \/ m[l[2] + 1] = "\n" }

\* the key a format "<prefix>%s" makes of a field name
KeyOf(pat, nm) == Front(pat) \o nm

\* the keys findVal is to try, in order
Tried ==
    IF formats = <<>> THEN <<name>>
    ELSE [i \in 1 .. Len(formats) |-> KeyOf(formats[i], name)]

\* the formats whose key is in the map
Present == {i \in 1 .. Len(Tried) : Tried[i] \in DOMAIN from}

FindValDone == pc = "done" /\ op = "findVal"

StructDone == pc = "done" /\ op = "Struct"

\* C1: findVal returns the value under the first key, in the order of the
\* formats, that is in the map, whatever later formats would find; without
\* formats the key is the field name itself.
C1_FirstMatchWins ==
    (FindValDone /\ Present # {}) =>
        LET first == CHOOSE i \in Present : \A j \in Present : i <= j
        IN  /\ ret.st = "ok"
            /\ ret.val = from[Tried[first]]

\* C1 (witness): formats "--%s", "-%s", both "--foo" and "-foo" in the map
\* under different values, and the value of "--foo" returned.
C1_Witness ==
    /\ FindValDone
    /\ name = <<"f", "o", "o">>
    /\ formats = << <<"-", "-", "%s">>, <<"-", "%s">> >>
    /\ {<<"-", "-", "f", "o", "o">>, <<"-", "f", "o", "o">>} \subseteq DOMAIN from
    /\ from[<<"-", "-", "f", "o", "o">>] # from[<<"-", "f", "o", "o">>]
    /\ ret.val = from[<<"-", "-", "f", "o", "o">>]

\* a text "<n>u": an optional sign, digits, one unit letter
IsUnitText(s) ==
    /\ Len(s) >= 2
    /\ UnitShift(ToUpper(s[Len(s)])) # -1
    /\ LET body == IF s[1] = "-" THEN Tail(Front(s)) ELSE Front(s)
       IN  body # <<>> /\ AllDigits(body)

\* n * multiplier(u) of a text "<n>u", as an integer
UnitProduct(s) ==
    LET neg  == s[1] = "-"
        body == IF neg THEN Tail(Front(s)) ELSE Front(s)
    IN  MkInt(neg, Shl(DecValue(body), UnitShift(ToUpper(s[Len(s)]))))

IntegerDest == Kind(fields[1].type) \in {"Int", "Uint"}

Fits(x, t) ==
    IF Kind(t) = "Int" THEN FitsSigned(x, Bits(t)) ELSE FitsUnsigned(x, Bits(t))

\* C2: the text "<n>u" coerced into an integer destination of any width
\* yields n * multiplier(u) when the destination can hold it and otherwise
\* fails with an error, storing nothing.
C2_UnitProductOrOverflow ==
    (pc = "done" /\ op = "Var" /\ val.t = "string" /\ IsUnitText(val.s)
       /\ IntegerDest) =>
        IF Fits(UnitProduct(val.s), fields[1].type)
        THEN ret.st = "ok" /\ to[1].n = UnitProduct(val.s)
        ELSE ret.st = "err" /\ to[1] = prior[1]

\* C3: when no tried key is in the map, the error of findVal (which Struct
\* appends as is) holds every tried key in full, in the order tried.
C3_NotFoundNamesEveryKey ==
    (FindValDone /\ Present = {}) =>
        /\ ret.st = "err"
        /\ Contains(ret.msg, <<"] not found in map">>)
        /\ ContainsInOrder(ret.msg, Tried)

\* what the iteration of Struct for field i does on its own
FieldAlone(i) == structField(fields[i], prior[i], from, formats, <<>>)

FieldFails(i) == FieldAlone(i).st = "panic" \/ FieldAlone(i).errstr # <<>>

\* the messages of fields 1 .. i, in the order of the fields
RECURSIVE MessagesUpTo(_)
MessagesUpTo(i) ==
    IF i = 0 THEN <<>> ELSE MessagesUpTo(i - 1) \o FieldAlone(i).errstr

\* C4: Struct returns nil exactly when no field and no element failed, and
\* otherwise an error holding the message of every failing field and
\* element, in the order of the fields, one per line.
C4_AllFailuresReported ==
    StructDone =>
        /\ ret.st = "nil" <=> \A i \in 1 .. Len(fields) : ~FieldFails(i)
        /\ (\E i \in 1 .. Len(fields) : FieldFails(i)) =>
              /\ ret.st = "error"
              /\ ret.msg \o <<"\n">> = MessagesUpTo(Len(fields))

\* C5: after Struct every field that converts on its own holds the
\* converted value and every scalar field that fails on its own holds its
\* value of before the call, whatever the other fields do.
C5_FieldsIndependent ==
    StructDone =>
        \A i \in 1 .. Len(fields) :
            /\ ~FieldFails(i) => to[i] = FieldAlone(i).val
            /\ (FieldFails(i) /\ Kind(fields[i].type) # "Slice") => to[i] = prior[i]

\* the value findVal finds for field i
Found(i) == findVal(fields[i].name, from, formats)

\* field i has a slice as its source and the loop of Struct reached it
SliceSourceAt(i) ==
    /\ ret.at >= i
    /\ Found(i).st = "ok"
    /\ Kind(Found(i).val.t) = "Slice"

\* C6: a slice source of length n bound into a slice field leaves a slice
\* of length n whose element i is source element i as Var converts it; an
\* element that fails does not stop the elements after it.
C6_SliceElementwise ==
    StructDone =>
        \A i \in 1 .. Len(fields) :
            (SliceSourceAt(i) /\ Kind(fields[i].type) = "Slice") =>
                LET src == Found(i).val.l
                IN  /\ Len(to[i].l) = Len(src)
                    /\ \A j \in 1 .. Len(src) :
                          LET r == Var(Zero(Elem(fields[i].type)), src[j])
                          IN  r.st = "ok" => to[i].l[j] = r.val

\* the lines of the returned error
ErrLines == {SubSeq(ret.msg, l[1], l[2]) : l \in Lines(ret.msg)}

\* C7: a slice source bound into a scalar field gives, when it has one
\* element, what Var gives for that element, and otherwise leaves the field
\* alone and reports an error naming the field and the source length.
C7_SliceIntoScalar ==
    StructDone =>
        \A i \in 1 .. Len(fields) :
            (SliceSourceAt(i) /\ Kind(fields[i].type) # "Slice") =>
                LET src == Found(i).val.l
                    r   == Var(prior[i], src[1])
                IN  IF Len(src) = 1
                    THEN /\ r.st = "panic" <=> (ret.st = "panic" /\ ret.at = i)
                         /\ to[i] = r.val
                         /\ (r.st = "err" /\ ret.st # "panic") =>
                                Contains(ret.msg, Error(r.err))
                    ELSE /\ to[i] = prior[i]
                         /\ ret.st # "panic" =>
                              \E l \in ErrLines :
                                  /\ Contains(l, fields[i].name)
                                  /\ Contains(l, Decimal(Len(src)))

\* C8: Uint64 gives the value and the outcome of Var into a uint64, and
\* never a negative number.
C8_Uint64AsVarUint64 ==
    (pc = "done" /\ op = "Uint64") =>
        LET r == Var(Zero("uint64"), val)
        IN  /\ ret.st = r.st
            /\ r.st = "ok" => ret.val.n = r.val.n
            /\ ~ret.val.n.neg

\* field i is a slice of slices, bound from a slice of slices, and reached
NestedAt(i) ==
    /\ SliceSourceAt(i)
    /\ Kind(fields[i].type) = "Slice"
    /\ Kind(Elem(fields[i].type)) = "Slice"
    /\ Kind(Elem(Found(i).val.t)) = "Slice"

\* the number of "Don't know how to unmarshall <from> to <to>" messages
Unsupported(m, tfrom, tto) ==
    Cardinality({k \in 1 .. Len(m) - 3 :
                    /\ m[k] = "Don't know how to unmarshall "
                    /\ m[k + 1] = tfrom
                    /\ m[k + 3] = tto})

C10_AlwaysReturns ==
    (pc = "done" /\ op = "Var" /\ val.t = "string" /\ IntegerDest) =>
        LET s     == val.s
            plain == IF Kind(fields[1].type) = "Int"
                     THEN ParseInt(s, Bits(fields[1].type))
                     ELSE ParseUint(s, Bits(fields[1].type))
        IN  /\ ret.st \in {"ok", "err"}
            /\ (~plain.ok /\ s # <<>> /\ UnitShift(ToUpper(s[Len(s)])) = -1) =>
                  ret.st = "err" /\ ret.err = plain.err

====
